---- MODULE Spec2Model ----
(***************************************************************************)
(* Bearpush: the upload route of cmd/bearpush/main.go.                     *)
(*                                                                         *)
(* One process serves POST /v1/upload/:product.  Every request runs the    *)
(* token middleware and then the upload handler in a goroutine of its own; *)
(* the handler stages the artifact in a temporary directory, runs the      *)
(* product's script as a child process, drains its stdout, then its        *)
(* stderr, waits for it and answers.  The main goroutine waits for an      *)
(* interrupt and shuts the server down with a 3 second deadline.           *)
(***************************************************************************)
EXTENDS Integers, Sequences, FiniteSets, TLC

\* ---------------------------------------------------------------- bounds
\* Capacity of an OS pipe, in units of data written by a child.
PipeCap == 1
\* Number of directory names ioutil.TempDir can choose from.
MaxDirs == 2

\* ------------------------------------------------------------- constants
\* context.WithTimeout(context.Background(), 3*time.Second)
GracePeriod == 3

\* The requests in flight at the same time (two concurrent uploads).
Requests == {1, 2}

\* ---------------------------------------------------------------- values
Secret == <<"k", "e", "y">>
\* no credential, the secret, the secret with its last character changed
Credentials == {<<>>, Secret, <<"k", "e", "x">>}

\* appContext.Products as built by bearpush.ContextFromConfig: a public
\* product without a pipeline step and a protected one with a script
Catalog ==
    [p \in {"open", "locked"} |->
        CASE p = "open"   -> [Script |-> "",          Strategy |-> "None",   Token |-> <<>>]
          [] p = "locked" -> [Script |-> "deploy.sh", Strategy |-> "Static", Token |-> Secret]]

\* values of the :product path parameter; "ghost" is not in the catalog
ProductNames == {"open", "locked", "ghost"}

ExitCodes == {0, 1}

DirNames == {<<"bearpush-", i>> : i \in 1..MaxDirs}
NoDir == <<>>

\* path.Join(tempDir, "artifact")
Join(dir, name) == Append(dir, name)

\* ---------------------------------------------------------------- state
VARIABLES
    appContext,  \* the application context: [Products |-> catalog]
    proc,        \* "loading", "failed" (startup error), "serving", "draining",
                 \* "exited" (returned nil), "fatal", "crashed" (panic)
    elapsed,     \* seconds of the grace period of srv.Shutdown(ctx) used up
    dirs,        \* directories on disk: records [name, creator]
    files,       \* files on disk: records [dir, name, data]
    req,         \* per request: the handler's locals and position
    child        \* per request: the child process started for it

vars == <<appContext, proc, elapsed, dirs, files, req, child>>

IdleReq ==
    [pc |-> "idle", product |-> "", cred |-> <<>>, hasFile |-> FALSE,
     tempDir |-> NoDir, deferred |-> FALSE, artifactPath |-> NoDir,
     stdoutPipe |-> "unset", stderrPipe |-> "unset", started |-> FALSE,
     saved |-> FALSE, panicking |-> FALSE, resp |-> <<>>, starts |-> 0,
     rm |-> "none"]

NoChild ==
    [status |-> "none", code |-> 0, env |-> NoDir, out |-> 0, err |-> 0]

\* the process has been started; nothing is loaded yet
Init ==
    /\ appContext = [Products |-> <<>>]
    /\ proc = "loading"
    /\ elapsed = 0
    /\ dirs = {}
    /\ files = {}
    /\ req = [r \in Requests |-> IdleReq]
    /\ child = [r \in Requests |-> NoChild]

\* the process is running: goroutines and children make steps
Alive == proc \in {"serving", "draining"}

\* the process has ended: the Action returned, or logger.Fatal exited
Terminated == proc \in {"exited", "fatal"}

\* requests the server has accepted and not finished
InFlight == {r \in Requests : req[r].pc \notin {"idle", "done"}}

\* ------------------------------------------------------------- responses
JSONResp(status, error, message) ==
    [status |-> status, kind |-> "json", error |-> error,
     message |-> message, subject |-> ""]

StringResp(status, message, subject) ==
    [status |-> status, kind |-> "text", error |-> 0,
     message |-> message, subject |-> subject]

RespUnauthorized == JSONResp(401, 0, "Unauthorized.")
RespNotFound     == JSONResp(400, 4, "Resource does not exist.")
RespNoFile       == StringResp(400, "Error while uploading", "")
RespNoTempDir    == StringResp(500, "Could not create a temporary directory for artifact. Check logs for details.", "")
\* a save failure reported in the words of the directory failure
RespNotSavedCopied == RespNoTempDir
\* c.String(500, "Could not save the uploaded artifact. ...")
RespNotSaved     == StringResp(500, "Could not save the uploaded artifact. Check logs for details.", "")
RespPipeline     == JSONResp(422, 8, "Pipeline associated with resource errored.")
RespSuccess(p)   == StringResp(200, "Artifact for product processed successfully.", p)
RespRecovered    == StringResp(500, "", "")

\* a handler whose return skips the deferred removal
HandlerReturnNoDefer(q) == "done"

\* where a handler goes when it returns: deferred calls run first
HandlerReturn(q) == IF q.deferred THEN "cleanup" ELSE "done"

\* a branch that returns without writing anything
RespondSilent(q, response) == [q EXCEPT !.pc = HandlerReturn(q)]

\* c.JSON / c.String followed by return
Respond(q, response) ==
    [q EXCEPT !.resp = Append(@, response), !.pc = HandlerReturn(q)]

\* --------------------------------------------------------------- startup
\* bearpush.LoadConfig, bearpush.ContextFromConfig, then the router is set
\* up and go server.Start(srv, ...) starts the listener; an error of either
\* call is returned by the Action and ends the process before it listens
LoadContext ==
    /\ proc = "loading"
    /\ \/ /\ appContext' = [Products |-> Catalog]
          /\ proc' = "serving"
       \/ /\ proc' = "failed"
          /\ UNCHANGED appContext
    /\ UNCHANGED <<elapsed, dirs, files, req, child>>

\* --------------------------------------------------------------- request
\* a route whose handler is reached without the middleware
ArriveUnguarded(r, p) ==
    /\ proc = "serving"
    /\ req[r].pc = "idle"
    /\ req' = [req EXCEPT ![r] = [IdleReq EXCEPT !.pc = "lookup", !.product = p]]
    /\ UNCHANGED <<appContext, proc, elapsed, dirs, files, child>>

\* The listener accepts a request: POST /v1/upload/:product; the route's
\* chain is server.ValidateToken(appContext), then the handler
Arrive(r, p) ==
    /\ proc = "serving"
    /\ req[r].pc = "idle"
    /\ req' = [req EXCEPT ![r] = [IdleReq EXCEPT !.pc = "validate", !.product = p]]
    /\ UNCHANGED <<appContext, proc, elapsed, dirs, files, child>>

\* a comparison that leaves out the last character
VerifyLoose(settings, presented) ==
    CASE settings.Strategy = "None"   -> TRUE
      [] settings.Strategy = "Static" ->
            /\ Len(presented) = Len(settings.Token)
            /\ \A i \in 1..(Len(presented) - 1) : presented[i] = settings.Token[i]
      [] OTHER                        -> FALSE

\* verify(tokenSettings, presentedCredential)
Verify(settings, presented) ==
    CASE settings.Strategy = "None"   -> TRUE
      [] settings.Strategy = "Static" -> presented = settings.Token
      [] OTHER                        -> FALSE

\* server.ValidateToken(appContext): the middleware in front of the handler
\* reads the credential c the request presents
ValidateToken(r, c) ==
    /\ Alive
    /\ req[r].pc = "validate"
    /\ LET q == [req[r] EXCEPT !.cred = c] IN
       IF q.product \notin DOMAIN appContext.Products
       THEN req' = [req EXCEPT ![r] = [q EXCEPT !.pc = "lookup"]]
       ELSE IF Verify(appContext.Products[q.product], q.cred)
            THEN req' = [req EXCEPT ![r] = [q EXCEPT !.pc = "lookup"]]
            ELSE req' = [req EXCEPT ![r] = Respond(q, RespUnauthorized)]
    /\ UNCHANGED <<appContext, proc, elapsed, dirs, files, child>>

\* a lookup that takes every name for a product
LookupOkAlways(products, name) == TRUE

\* p, ok := appContext.Products[product]: ok, and p (the zero Product
\* when the key is missing)
LookupOk(products, name) == name \in DOMAIN products
ProductOf(products, name) ==
    IF name \in DOMAIN products THEN products[name]
    ELSE [Script |-> "", Strategy |-> "", Token |-> <<>>]

\* a lookup that stores the zero Product under a missing key
InsertOnLookup(products, name) ==
    [n \in DOMAIN products \cup {name} |-> ProductOf(products, n)]

\* the map after p, ok := appContext.Products[product]: reading a Go map
\* does not add the key
MapAfterLookup(products, name) == products

\* if !ok { c.JSON(400, {error: 4, ...}); return }
Lookup(r) ==
    /\ Alive
    /\ req[r].pc = "lookup"
    /\ LET q == req[r] IN
       IF ~LookupOk(appContext.Products, q.product)
       THEN req' = [req EXCEPT ![r] = Respond(q, RespNotFound)]
       ELSE req' = [req EXCEPT ![r].pc = "formfile"]
    /\ appContext' = [appContext EXCEPT
                         !.Products = MapAfterLookup(@, req[r].product)]
    /\ UNCHANGED <<proc, elapsed, dirs, files, child>>

\* file, err := c.FormFile("artifact"): parses the multipart body, which
\* has the field (f) or not
FormFile(r, f) ==
    /\ Alive
    /\ req[r].pc = "formfile"
    /\ LET q == [req[r] EXCEPT !.hasFile = f] IN
       IF q.hasFile
       THEN req' = [req EXCEPT ![r] = [q EXCEPT !.pc = "tempdir"]]
       ELSE req' = [req EXCEPT ![r] = Respond(q, RespNoFile)]
    /\ UNCHANGED <<appContext, proc, elapsed, dirs, files, child>>

\* a TempDir that does not look at what exists
AnyDir(existing) == DirNames

\* the names ioutil.TempDir("", "bearpush-") may create: none that exists
FreshDirs(existing) == DirNames \ {e.name : e \in existing}

\* tempDir, err := ioutil.TempDir(...); defer util.TryRemoveDir(tempDir)
TempDir(r) ==
    /\ Alive
    /\ req[r].pc = "tempdir"
    /\ \/ /\ req' = [req EXCEPT ![r] = Respond(req[r], RespNoTempDir)]
          /\ UNCHANGED dirs
       \/ \E d \in FreshDirs(dirs) :
             /\ dirs' = dirs \cup {[name |-> d, creator |-> r]}
             /\ req' = [req EXCEPT ![r].tempDir = d, ![r].deferred = TRUE,
                                   ![r].pc = "save"]
    /\ UNCHANGED <<appContext, proc, elapsed, files, child>>

\* artifactPath := path.Join(tempDir, "artifact"); c.SaveUploadedFile(...)
SaveUploadedFile(r) ==
    /\ Alive
    /\ req[r].pc = "save"
    /\ LET q == [req[r] EXCEPT !.artifactPath = Join(req[r].tempDir, "artifact")] IN
       \/ /\ req' = [req EXCEPT ![r] = Respond(q, RespNotSaved)]
          /\ UNCHANGED files
       \/ /\ files' = files \cup {[dir |-> q.tempDir, name |-> "artifact", data |-> r]}
          /\ req' = [req EXCEPT ![r] = [q EXCEPT !.saved = TRUE, !.pc = "script"]]
    /\ UNCHANGED <<appContext, proc, elapsed, dirs, child>>

\* ------------------------------------------------------------- pipeline
\* what cmd.StdoutPipe / cmd.StderrPipe leaves in the handler's variable
\* once cmd.Start has run: a nil interface when the pipe could not be made,
\* a closed file when Start failed (Start closes the parent's ends)
PipeAfterStart(pipeOK, startOK) ==
    IF ~pipeOK THEN "nil" ELSE IF startOK THEN "open" ELSE "closed"

\* a guard that runs the pipeline step for every product
ScriptAlways(p) == TRUE

\* if p.Script != ""
ScriptConfigured(p) == p.Script # ""

\* an environment that carries the directory instead of the file
ChildEnvDir(q) == q.tempDir

\* cmd.Env = append(os.Environ(), "ARTIFACT_PATH=" + artifactPath): the
\* value of the variable added to the parent's environment
ChildEnv(q) == q.artifactPath

\* if p.Script != "" { cmd := exec.Command(p.Script); cmd.Env = ...;
\* StdoutPipe; StderrPipe; cmd.Start }: the three errors are only logged
StartPipeline(r) ==
    /\ Alive
    /\ req[r].pc = "script"
    /\ ScriptConfigured(ProductOf(appContext.Products, req[r].product))
    /\ \E outOK \in BOOLEAN, errOK \in BOOLEAN, startOK \in BOOLEAN :
          /\ req' = [req EXCEPT ![r].stdoutPipe = PipeAfterStart(outOK, startOK),
                                ![r].stderrPipe = PipeAfterStart(errOK, startOK),
                                ![r].started = startOK,
                                ![r].starts = @ + 1,
                                ![r].pc = "readStdout"]
          /\ child' = IF startOK
                      THEN [child EXCEPT ![r] = [NoChild EXCEPT
                               !.status = "running", !.env = ChildEnv(req[r])]]
                      ELSE child
    /\ UNCHANGED <<appContext, proc, elapsed, dirs, files>>

\* p.Script == "": the pipeline step is skipped
SkipPipeline(r) ==
    /\ Alive
    /\ req[r].pc = "script"
    /\ ~ScriptConfigured(ProductOf(appContext.Products, req[r].product))
    /\ req' = [req EXCEPT ![r].pc = "success"]
    /\ UNCHANGED <<appContext, proc, elapsed, dirs, files, child>>

\* a method call on a nil io.ReadCloser: the handler panics, its deferred
\* calls run and the recovery middleware takes over
Panic(q) == [q EXCEPT !.panicking = TRUE, !.pc = HandlerReturn(q)]

\* _, err = io.ReadAll(stdoutPipe): reads until end of file, which comes
\* when the child has exited and the pipe is empty
ReadStdout(r) ==
    /\ Alive
    /\ req[r].pc = "readStdout"
    /\ LET q == req[r] IN
       CASE q.stdoutPipe = "nil" ->
               /\ req' = [req EXCEPT ![r] = Panic(q)]
               /\ UNCHANGED child
         [] q.stdoutPipe = "closed" ->
               /\ req' = [req EXCEPT ![r].pc = "readStderr"]
               /\ UNCHANGED child
         [] OTHER ->
               \/ /\ child[r].out > 0
                  /\ child' = [child EXCEPT ![r].out = 0]
                  /\ UNCHANGED req
               \/ /\ child[r].out = 0
                  /\ child[r].status = "exited"
                  /\ req' = [req EXCEPT ![r].pc = "readStderr"]
                  /\ UNCHANGED child
    /\ UNCHANGED <<appContext, proc, elapsed, dirs, files>>

\* _, err = io.ReadAll(stderrPipe)
ReadStderr(r) ==
    /\ Alive
    /\ req[r].pc = "readStderr"
    /\ LET q == req[r] IN
       CASE q.stderrPipe = "nil" ->
               /\ req' = [req EXCEPT ![r] = Panic(q)]
               /\ UNCHANGED child
         [] q.stderrPipe = "closed" ->
               /\ req' = [req EXCEPT ![r].pc = "wait"]
               /\ UNCHANGED child
         [] OTHER ->
               \/ /\ child[r].err > 0
                  /\ child' = [child EXCEPT ![r].err = 0]
                  /\ UNCHANGED req
               \/ /\ child[r].err = 0
                  /\ child[r].status = "exited"
                  /\ req' = [req EXCEPT ![r].pc = "wait"]
                  /\ UNCHANGED child
    /\ UNCHANGED <<appContext, proc, elapsed, dirs, files>>

\* the error of cmd.Wait(): "exec: not started", or an ExitError for a
\* non-zero exit status
WaitError(started, code) == ~started \/ code # 0

\* Wait closes the parent's ends of the pipes
ClosePipe(pipe) == IF pipe = "open" THEN "closed" ELSE pipe

\* a handler that starts the script again when it failed
RetryOnWaitError(q) == [q EXCEPT !.pc = "script"]

\* logger.Errorf("Command failed"); c.JSON(422, {error: 8, ...}); return
OnWaitError(q) == Respond(q, RespPipeline)

\* if err := cmd.Wait(); err != nil { ... }: Wait blocks until the child
\* has exited
Wait(r) ==
    /\ Alive
    /\ req[r].pc = "wait"
    /\ req[r].started => child[r].status = "exited"
    /\ LET q == [req[r] EXCEPT !.stdoutPipe = ClosePipe(@),
                               !.stderrPipe = ClosePipe(@)] IN
       IF WaitError(q.started, child[r].code)
       THEN req' = [req EXCEPT ![r] = OnWaitError(q)]
       ELSE req' = [req EXCEPT ![r] = [q EXCEPT !.pc = "success"]]
    /\ UNCHANGED <<appContext, proc, elapsed, dirs, files, child>>

\* c.String(http.StatusOK, "Artifact for product %s processed successfully.")
Success(r) ==
    /\ Alive
    /\ req[r].pc = "success"
    /\ req' = [req EXCEPT ![r] = Respond(req[r], RespSuccess(req[r].product))]
    /\ UNCHANGED <<appContext, proc, elapsed, dirs, files, child>>

\* os.RemoveAll(path): the directory of that name and all it contains
RemoveAll(existing, path) == {e \in existing : e.name # path}
RemoveFiles(existing, path) == {f \in existing : f.dir # path}

\* ginzap.RecoveryWithZap, when the handler panicked: recover(), log,
\* c.AbortWithStatus(500)
Recovery(q) ==
    IF q.panicking
    THEN [q EXCEPT !.resp = Append(@, RespRecovered), !.panicking = FALSE]
    ELSE q

\* a router without the recovery middleware
RecoveryMissing == FALSE

\* router.Use(ginzap.RecoveryWithZap(...)): panics of handlers are recovered
RecoveryInstalled == TRUE

\* a panic nothing recovers ends the process
AfterUnwind(q, state) ==
    IF q.panicking /\ ~RecoveryInstalled THEN "crashed" ELSE state

\* a cleanup that answers 500 when the removal failed
DeferredRemovalAnswers(q, ok) ==
    IF ok THEN [q EXCEPT !.rm = "ok"]
    ELSE [q EXCEPT !.rm = "failed", !.resp = <<RespRecovered>>]

\* defer util.TryRemoveDir(tempDir): the call gets the path only and its
\* outcome is not looked at
DeferredRemoval(q, ok) == [q EXCEPT !.rm = IF ok THEN "ok" ELSE "failed"]

\* the deferred util.TryRemoveDir(tempDir) runs as the handler returns or
\* unwinds: removal may fail, which is logged and nothing more; the
\* recovery middleware then answers for a handler that panicked
TryRemoveDir(r) ==
    /\ Alive
    /\ req[r].pc = "cleanup"
    /\ \E ok \in BOOLEAN :
          /\ dirs'  = IF ok THEN RemoveAll(dirs, req[r].tempDir) ELSE dirs
          /\ files' = IF ok THEN RemoveFiles(files, req[r].tempDir) ELSE files
          /\ req' = [req EXCEPT ![r] =
                        [Recovery(DeferredRemoval(req[r], ok)) EXCEPT !.pc = "done"]]
    /\ proc' = AfterUnwind(req[r], proc)
    /\ UNCHANGED <<appContext, elapsed, child>>

\* ----------------------------------------------------------------- child
\* A child is followed while the request that started it is in flight: once
\* its handler has returned nothing reads its output or its exit status.
\* the handler's end of the child's stream s ("out" or "err")
PipeOf(r, s) == IF s = "out" THEN req[r].stdoutPipe ELSE req[r].stderrPipe
Fill(r, s)   == IF s = "out" THEN child[r].out ELSE child[r].err
SetFill(c, s, n) == IF s = "out" THEN [c EXCEPT !.out = n] ELSE [c EXCEPT !.err = n]

\* the script writes one unit to a stream whose pipe has room
ChildWrite(r, s) ==
    /\ Alive
    /\ r \in InFlight
    /\ child[r].status = "running"
    /\ PipeOf(r, s) = "open"
    /\ Fill(r, s) < PipeCap
    /\ child' = [child EXCEPT ![r] = SetFill(@, s, Fill(r, s) + 1)]
    /\ UNCHANGED <<appContext, proc, elapsed, dirs, files, req>>

\* the script writes to a stream whose pipe is full: write(2) blocks
ChildBlock(r, s) ==
    /\ Alive
    /\ r \in InFlight
    /\ child[r].status = "running"
    /\ PipeOf(r, s) = "open"
    /\ Fill(r, s) = PipeCap
    /\ child' = [child EXCEPT ![r].status = s]
    /\ UNCHANGED <<appContext, proc, elapsed, dirs, files, req>>

\* the blocked write goes through once the reader has made room
ChildResume(r) ==
    /\ Alive
    /\ r \in InFlight
    /\ child[r].status \in {"out", "err"}
    /\ Fill(r, child[r].status) < PipeCap
    /\ child' = [child EXCEPT ![r] =
                    [SetFill(@, child[r].status, Fill(r, child[r].status) + 1)
                        EXCEPT !.status = "running"]]
    /\ UNCHANGED <<appContext, proc, elapsed, dirs, files, req>>

\* the script exits; its ends of the pipes close
ChildExit(r, code) ==
    /\ Alive
    /\ r \in InFlight
    /\ child[r].status = "running"
    /\ child' = [child EXCEPT ![r].status = "exited", ![r].code = code]
    /\ UNCHANGED <<appContext, proc, elapsed, dirs, files, req>>

\* -------------------------------------------------------------- shutdown
\* util.WaitForInterrupt() returns; srv.Shutdown(ctx) closes the listener
\* and starts waiting; ctx expires after GracePeriod
Interrupt ==
    /\ proc = "serving"
    /\ proc' = "draining"
    /\ elapsed' = 0
    /\ UNCHANGED <<appContext, dirs, files, req, child>>

\* the grace period runs out while Shutdown waits
Tick ==
    /\ proc = "draining"
    /\ elapsed < GracePeriod
    /\ elapsed' = GracePeriod
    /\ UNCHANGED <<appContext, proc, dirs, files, req, child>>

\* a context without deadline
DeadlineNever(t) == FALSE

\* ctx.Done(): the deadline of context.WithTimeout has passed
DeadlineExceeded(t) == t >= GracePeriod

\* srv.Shutdown returns nil: no request is in flight; the Action returns
ShutdownReturns ==
    /\ proc = "draining"
    /\ InFlight = {}
    /\ proc' = "exited"
    /\ UNCHANGED <<appContext, elapsed, dirs, files, req, child>>

\* srv.Shutdown returns ctx.Err(): logger.Fatal exits the process at once,
\* no deferred call of any goroutine runs
ShutdownTimesOut ==
    /\ proc = "draining"
    /\ InFlight # {}
    /\ DeadlineExceeded(elapsed)
    /\ proc' = "fatal"
    /\ UNCHANGED <<appContext, elapsed, dirs, files, req, child>>

Next ==
    \/ LoadContext
    \/ \E r \in Requests, p \in ProductNames : Arrive(r, p)
    \/ \E r \in Requests, c \in Credentials : ValidateToken(r, c)
    \/ \E r \in Requests : Lookup(r)
    \/ \E r \in Requests, f \in BOOLEAN : FormFile(r, f)
    \/ \E r \in Requests : TempDir(r)
    \/ \E r \in Requests : SaveUploadedFile(r)
    \/ \E r \in Requests : StartPipeline(r)
    \/ \E r \in Requests : SkipPipeline(r)
    \/ \E r \in Requests : ReadStdout(r)
    \/ \E r \in Requests : ReadStderr(r)
    \/ \E r \in Requests : Wait(r)
    \/ \E r \in Requests : Success(r)
    \/ \E r \in Requests : TryRemoveDir(r)
    \/ \E r \in Requests, s \in {"out", "err"} : ChildWrite(r, s)
    \/ \E r \in Requests, s \in {"out", "err"} : ChildBlock(r, s)
    \/ \E r \in Requests : ChildResume(r)
    \/ \E r \in Requests, code \in ExitCodes : ChildExit(r, code)
    \/ Interrupt
    \/ Tick
    \/ ShutdownReturns
    \/ ShutdownTimesOut

Spec == Init /\ [][Next]_vars

\* the clock advances and Shutdown returns when it can; nothing forces a
\* handler or a script to make progress
FairSpec ==
    Spec /\ WF_vars(Tick) /\ WF_vars(ShutdownReturns) /\ WF_vars(ShutdownTimesOut)

\* ================================================================ claims
\* the directory request r created is still on disk
OwnDirOnDisk(r) ==
    \E e \in dirs : e.name = req[r].tempDir /\ e.creator = r

Done(r) == req[r].pc = "done"

\* C1 as stated: every request that created a temporary directory has had
\* it removed by the time its handling has completed, whatever the outcome.
C1_DirRemovedOnCompletion ==
    \A r \in Requests :
        (Done(r) /\ req[r].tempDir # NoDir) => ~OwnDirOnDisk(r)

\* C1 amended: every completed request that created a temporary directory
\* has attempted its removal, on every outcome, and the directory is gone
\* whenever that removal did not fail.
C1_RemovalAttempted ==
    \A r \in Requests :
        (Done(r) /\ req[r].tempDir # NoDir) =>
            /\ req[r].rm \in {"ok", "failed"}
            /\ req[r].rm = "ok" => ~OwnDirOnDisk(r)

\* a request answered 422 whose directory has been removed
C1_Witness ==
    \E r \in Requests :
        /\ Done(r)
        /\ req[r].tempDir # NoDir
        /\ req[r].resp = <<RespPipeline>>
        /\ req[r].rm = "ok"
        /\ ~OwnDirOnDisk(r)

\* a step of the handler's drain-and-wait sequence, or of its child
PipelineStep(r) ==
    \/ ReadStdout(r)
    \/ ReadStderr(r)
    \/ Wait(r)
    \/ \E s \in {"out", "err"} : ChildWrite(r, s)
    \/ \E s \in {"out", "err"} : ChildBlock(r, s)
    \/ ChildResume(r)
    \/ \E code \in ExitCodes : ChildExit(r, code)

\* C2: draining stdout, draining stderr and waiting never deadlocks on the
\* child's output: while the handler is in that sequence with a started
\* child, the handler or the child can always make a step.
C2_NoOutputDeadlock ==
    \A r \in Requests :
        (/\ Alive
         /\ req[r].pc \in {"readStdout", "readStderr", "wait"}
         /\ req[r].started
         /\ req[r].stdoutPipe = "open"
         /\ req[r].stderrPipe = "open")
        => ENABLED PipelineStep(r)

\* the product of request r has a script and its artifact was staged
Piped(r) ==
    /\ LookupOk(appContext.Products, req[r].product)
    /\ ProductOf(appContext.Products, req[r].product).Script # ""
    /\ req[r].saved

\* C3: for a known product with a script and a staged artifact, the
\* response is 200 naming the product exactly when the script exits 0, and
\* 422 with error code 8 (different from 4) when it exits non-zero.
C3_StatusFollowsExit ==
    \A r \in Requests :
        (Done(r) /\ Piped(r)) =>
            /\ req[r].resp = <<RespSuccess(req[r].product)>>
                  <=> (child[r].status = "exited" /\ child[r].code = 0)
            /\ (child[r].status = "exited" /\ child[r].code # 0)
                  => req[r].resp = <<RespPipeline>>
            /\ RespPipeline.status = 422
            /\ RespPipeline.error = 8
            /\ RespPipeline.error # RespNotFound.error

\* the pipeline step of request r failed to set up a pipe or to start
SetupFailed(r) ==
    /\ req[r].starts > 0
    /\ \/ ~req[r].started
       \/ req[r].stdoutPipe = "nil"
       \/ req[r].stderrPipe = "nil"

\* C4: a script that cannot be started, or whose pipe setup fails, ends
\* the request with the 'pipeline failed' response (422, error 8).
C4_SetupFailureIsPipelineFailure ==
    \A r \in Requests :
        (Done(r) /\ SetupFailed(r)) => req[r].resp = <<RespPipeline>>

\* C5: a request for a product that is not in the catalog is answered 400
\* with error code 4, and neither creates a temporary directory nor starts
\* a child process.
C5_UnknownProduct ==
    \A r \in Requests :
        (req[r].pc # "idle" /\ req[r].product \notin DOMAIN Catalog) =>
            /\ req[r].tempDir = NoDir
            /\ req[r].starts = 0
            /\ child[r].status = "none"
            /\ ~\E e \in dirs : e.creator = r
            /\ Done(r) =>
                  /\ req[r].resp = <<RespNotFound>>
                  /\ req[r].resp[1].status = 400
                  /\ req[r].resp[1].error = 4
                  /\ req[r].resp[1].message = "Resource does not exist."

\* a completed request for the unknown product
C5_Witness ==
    \E r \in Requests :
        Done(r) /\ req[r].product = "ghost" /\ Len(req[r].resp) = 1

\* C6: a request cut short by process shutdown still has its temporary
\* directory removed: once the process has terminated, no directory of a
\* request that was still in flight remains.
C6_NoDirOutlivesRequest ==
    \A r \in Requests :
        (Terminated /\ r \in InFlight) => ~OwnDirOnDisk(r)

\* C7: after an interrupt the process terminates: normally when no request
\* is in flight any more, fatally only once the 3 second grace period has
\* passed with a request still in flight; it terminates in either case,
\* even if a script never exits.
C7_BoundedShutdown ==
    /\ [](proc = "exited" => InFlight = {})
    /\ [](proc = "fatal" => (elapsed >= GracePeriod /\ InFlight # {}))
    /\ [](proc = "draining" => elapsed <= GracePeriod)
    /\ ((proc = "draining") ~> Terminated)

\* the forced shutdown: the handler still drains the output of a script
\* that has not exited
C7_Witness ==
    /\ proc = "fatal"
    /\ elapsed = GracePeriod
    /\ \E r \in Requests :
          req[r].pc = "readStdout" /\ child[r].status = "running"

\* request r has created its directory and not yet run its removal
HoldsDir(r) == req[r].tempDir # NoDir /\ req[r].rm = "none"

\* C8: two concurrent uploads stage into distinct directories, each child
\* gets the artifact path of its own request, each response follows the
\* exit status of its own child, and no request's cleanup removes the
\* other's directory or artifact.
C8_RequestsIndependent ==
    /\ \A r \in Requests :
          HoldsDir(r) =>
             /\ OwnDirOnDisk(r)
             /\ \A e \in dirs : e.name = req[r].tempDir => e.creator = r
             /\ req[r].saved =>
                   /\ req[r].artifactPath = Join(req[r].tempDir, "artifact")
                   /\ \A f \in files : (f.dir = req[r].tempDir) => f.data = r
                   /\ [dir |-> req[r].tempDir, name |-> "artifact", data |-> r]
                         \in files
    /\ \A r1 \in Requests, r2 \in Requests :
          (r1 # r2 /\ HoldsDir(r1) /\ HoldsDir(r2))
             => req[r1].tempDir # req[r2].tempDir
    /\ \A r \in Requests :
          child[r].status # "none" =>
             /\ req[r].saved
             /\ child[r].env = Join(req[r].tempDir, "artifact")
    /\ \A r \in Requests :
          (Piped(r) /\ req[r].resp # <<>>) =>
             /\ req[r].resp = <<RespSuccess(req[r].product)>>
                   => (child[r].status = "exited" /\ child[r].code = 0)
             /\ req[r].resp = <<RespPipeline>>
                   => (~req[r].started
                       \/ (child[r].status = "exited" /\ child[r].code # 0))

\* two uploads to the same product, both answered and both still holding
\* their directories: one succeeded, the other's script failed
C8_Witness ==
    /\ req[1].product = "locked" /\ req[2].product = "locked"
    /\ req[1].pc = "cleanup" /\ req[2].pc = "cleanup"
    /\ req[1].resp = <<RespSuccess("locked")>>
    /\ req[2].resp = <<RespPipeline>>
    /\ child[1].code = 0 /\ child[2].code = 1
    /\ OwnDirOnDisk(1) /\ OwnDirOnDisk(2)
    /\ req[1].tempDir # req[2].tempDir

\* C9: a request starts its product's script at most once, and exactly
\* once when it reaches the pipeline step with a script configured.
C9_OneInvocation ==
    \A r \in Requests :
        /\ req[r].starts <= 1
        /\ req[r].starts = 1 => Piped(r)
        /\ (Piped(r) /\ req[r].pc # "script") => req[r].starts = 1

\* a request whose script could not be started, answered without retry
C9_Witness ==
    \E r \in Requests :
        /\ Done(r)
        /\ req[r].starts = 1
        /\ ~req[r].started
        /\ req[r].resp = <<RespPipeline>>

\* request r is an upload with a file to a known product of strategy None
NoneUpload(r) ==
    /\ req[r].pc # "idle"
    /\ LookupOk(appContext.Products, req[r].product)
    /\ ProductOf(appContext.Products, req[r].product).Strategy = "None"
    /\ req[r].hasFile

NoScript(r) ==
    /\ req[r].pc \notin {"idle", "validate", "lookup"}
    /\ LookupOk(appContext.Products, req[r].product)
    /\ ProductOf(appContext.Products, req[r].product).Script = ""

\* C11: for a product whose script path is empty no child process is ever
\* started, and once the artifact has been staged the handler goes straight
\* to the success response: the request is answered 200, and nothing else.
C11_EmptyScriptSkips ==
    \A r \in Requests :
        NoScript(r) =>
            /\ req[r].starts = 0
            /\ ~req[r].started
            /\ child[r].status = "none"
            /\ req[r].saved =>
                  /\ req[r].pc \in {"script", "success", "cleanup", "done"}
                  /\ req[r].pc \in {"cleanup", "done"} =>
                        /\ req[r].resp = <<RespSuccess(req[r].product)>>
                        /\ req[r].resp[1].status = 200

\* an upload to the product without a script that was staged and answered
\* 200 without a child
C11_Witness ==
    \E r \in Requests :
        /\ NoScript(r)
        /\ Done(r)
        /\ req[r].saved
        /\ req[r].starts = 0
        /\ child[r].status = "none"
        /\ req[r].resp = <<RespSuccess("open")>>

\* request r got past the middleware and the catalog lookup and has parsed
\* its form
Staging(r) ==
    /\ req[r].pc \notin {"idle", "validate", "lookup", "formfile"}
    /\ LookupOk(appContext.Products, req[r].product)
    /\ Verify(ProductOf(appContext.Products, req[r].product), req[r].cred)

\* the three ways staging fails, read off what the request has got so far
FileMissing(r) == Staging(r) /\ ~req[r].hasFile
DirFailed(r) ==
    Staging(r) /\ req[r].hasFile /\ req[r].pc # "tempdir" /\ req[r].tempDir = NoDir
SaveFailed(r) ==
    /\ Staging(r)
    /\ req[r].tempDir # NoDir
    /\ req[r].pc # "save"
    /\ ~req[r].saved

\* C12: a request without the 'artifact' field is answered 400, one whose
\* temporary directory could not be created 500, one whose file could not
\* be saved 500 with another message than the directory failure; each is
\* answered once, and none of them starts a child process.
C12_StagingFailuresDistinct ==
    \A r \in Requests :
        /\ FileMissing(r) =>
              /\ Done(r)
              /\ req[r].resp = <<RespNoFile>>
              /\ req[r].resp[1].status = 400
        /\ DirFailed(r) =>
              /\ Done(r)
              /\ req[r].resp = <<RespNoTempDir>>
              /\ req[r].resp[1].status = 500
        /\ SaveFailed(r) =>
              /\ req[r].pc \in {"cleanup", "done"}
              /\ Len(req[r].resp) = 1
              /\ req[r].resp[1].status = 500
              /\ req[r].resp[1].message # RespNoTempDir.message
              /\ req[r].resp[1].message # RespNoFile.message
        /\ (FileMissing(r) \/ DirFailed(r) \/ SaveFailed(r)) =>
              /\ req[r].starts = 0
              /\ ~req[r].started
              /\ child[r].status = "none"

\* three finished requests cannot be had with two requests: one whose save
\* failed next to one whose directory could not be created
C12_Witness ==
    \E r, o \in Requests :
        /\ SaveFailed(r) /\ Done(r) /\ req[r].resp = <<RespNotSaved>>
        /\ DirFailed(o) /\ Done(o) /\ req[o].resp = <<RespNoTempDir>>

\* request r has been answered with a failure
Failed(r) ==
    /\ Done(r)
    /\ req[r].resp # <<>>
    /\ req[r].resp[1].status # 200

\* C13: no step of a request ends the process or changes its state, whatever
\* the request ran into: the process never crashes, a serving process goes
\* on accepting requests next to failed ones, and the one way to the fatal
\* exit is a shutdown whose grace period ran out with a request in flight.
C13_RequestErrorsNotFatal ==
    /\ [](proc # "crashed")
    /\ []((proc = "serving" /\ \E r \in Requests : Failed(r)) =>
            \A o \in Requests :
                req[o].pc = "idle" => ENABLED Arrive(o, "locked"))
    /\ [][(\E r \in Requests : req'[r] # req[r]) => proc' = proc]_vars
    /\ [][(proc \in {"serving", "draining"} /\ proc' \notin {"serving", "draining", "exited"}) =>
             /\ proc = "draining"
             /\ proc' = "fatal"
             /\ elapsed >= GracePeriod
             /\ InFlight # {}
             /\ req' = req]_vars

\* a request whose handler panicked was answered 500 and the process went
\* on to serve another request to its successful end
C13_Witness ==
    \E r, o \in Requests :
        /\ proc = "serving"
        /\ Done(r) /\ req[r].resp = <<RespRecovered>>
        /\ Done(o) /\ req[o].resp = <<RespSuccess("locked")>>

\* something has been staged or started for request r
Touched(r) ==
    \/ req[r].tempDir # NoDir
    \/ req[r].saved
    \/ req[r].starts > 0
    \/ child[r].status # "none"
    \/ \E e \in dirs : e.creator = r
    \/ \E f \in files : f.data = r

\* C14: a directory, a file or a child of a request exists only if the
\* request's credential was verified for its product first; a child is
\* started only once directory and file are there; and directory, file and
\* child are all made before the response is written, none after it.
C14_VerifyStageInvokeRespond ==
    /\ [](\A r \in Requests :
            /\ Touched(r) =>
                  /\ req[r].pc \notin {"idle", "validate", "lookup", "formfile"}
                  /\ LookupOk(appContext.Products, req[r].product)
                  /\ Verify(ProductOf(appContext.Products, req[r].product),
                            req[r].cred)
            /\ req[r].saved => req[r].tempDir # NoDir
            /\ req[r].starts > 0 => req[r].saved
            /\ (req[r].resp # <<>> /\ req[r].starts > 0) =>
                  req[r].pc \in {"cleanup", "done"})
    /\ [][\A r \in Requests :
            (\/ req'[r].tempDir # req[r].tempDir
             \/ req'[r].saved # req[r].saved
             \/ req'[r].starts # req[r].starts
             \/ (child[r].status = "none" /\ child'[r].status # "none"))
               => (req[r].resp = <<>> /\ req'[r].resp = <<>>)]_vars

\* an upload to the protected product that was verified, staged, ran its
\* script and was answered
C14_Witness ==
    \E r \in Requests :
        /\ Done(r)
        /\ req[r].product = "locked"
        /\ req[r].cred = Secret
        /\ req[r].saved
        /\ req[r].starts = 1
        /\ child[r].status = "exited"
        /\ req[r].resp = <<RespSuccess("locked")>>

\* C15: the step that runs the deferred removal leaves the response the
\* handler wrote as it is, whether the removal succeeds or fails; when the
\* handler panicked and wrote none, the 500 of the recovery middleware
\* follows in both cases alike.
C15_CleanupKeepsResponse ==
    [][\A r \in Requests :
         (req[r].pc = "cleanup" /\ req'[r].pc = "done") =>
            /\ req'[r].rm \in {"ok", "failed"}
            /\ req[r].resp # <<>> => req'[r].resp = req[r].resp
            /\ req[r].resp = <<>> =>
                  /\ req[r].panicking
                  /\ req'[r].resp = <<RespRecovered>>]_vars

\* a removal failed, the directory is still there, and the request has the
\* 200 its handler wrote
C15_Witness ==
    \E r \in Requests :
        /\ Done(r)
        /\ req[r].rm = "failed"
        /\ OwnDirOnDisk(r)
        /\ req[r].resp = <<RespSuccess(req[r].product)>>

\* C16: no request is accepted before the catalog is built; from the moment
\* the process serves, the catalog is the one built from the configuration,
\* and no step of any request, of a child or of the shutdown changes it.
C16_CatalogImmutable ==
    /\ [](proc \in {"loading", "failed"} =>
            \A r \in Requests : req[r] = IdleReq)
    /\ [](proc \notin {"loading", "failed"} =>
            /\ appContext.Products = Catalog
            /\ DOMAIN appContext.Products = {"open", "locked"})
    /\ [][proc # "loading" => appContext' = appContext]_vars

\* a request for a name the catalog does not have was looked up and
\* answered while another request was past its own lookup, and the catalog
\* still has its two products
C16_Witness ==
    \E r, o \in Requests :
        /\ Done(r)
        /\ req[r].product = "ghost"
        /\ req[r].resp = <<RespNotFound>>
        /\ req[o].pc = "readStdout"
        /\ req[o].product = "locked"
        /\ DOMAIN appContext.Products = {"open", "locked"}

\* request r is for a product of strategy Static and has been through the
\* middleware
StaticChecked(r) ==
    /\ req[r].pc \notin {"idle", "validate"}
    /\ LookupOk(appContext.Products, req[r].product)
    /\ ProductOf(appContext.Products, req[r].product).Strategy = "Static"

Rejected(r) == req[r].resp # <<>> /\ req[r].resp[1] = RespUnauthorized

\* the two sequences have one length and differ at exactly one place
DiffersInOne(a, b) ==
    /\ Len(a) = Len(b)
    /\ Cardinality({i \in 1..Len(a) : a[i] # b[i]}) = 1

\* C17: a request for a Static product gets past the middleware exactly
\* when its credential equals the configured secret, character by
\* character; a credential with one character changed is rejected; a
\* rejected request is finished with the one response 401 'unauthorized',
\* its handler never ran, and nothing panicked or ended the process.
C17_StaticByteEqual ==
    \A r \in Requests :
        StaticChecked(r) =>
            LET token == ProductOf(appContext.Products, req[r].product).Token IN
            /\ Rejected(r) <=> req[r].cred # token
            /\ DiffersInOne(req[r].cred, token) => Rejected(r)
            /\ Rejected(r) =>
                  /\ Done(r)
                  /\ req[r].resp = <<RespUnauthorized>>
                  /\ req[r].resp[1].status = 401
                  /\ ~req[r].panicking
                  /\ req[r].tempDir = NoDir
                  /\ req[r].starts = 0
                  /\ proc # "crashed"
            /\ ~Rejected(r) =>
                  \A i \in 1..Len(token) : req[r].cred[i] = token[i]

\* one request presented the secret with its last character changed and was
\* rejected; another presented the secret and its handler is running
C17_Witness ==
    \E r, o \in Requests :
        /\ StaticChecked(r) /\ Done(r)
        /\ DiffersInOne(req[r].cred, Secret)
        /\ req[r].resp = <<RespUnauthorized>>
        /\ StaticChecked(o) /\ req[o].cred = Secret /\ req[o].pc = "tempdir"
        /\ Alive

\* the file request r saved, as it lies on disk
SavedArtifact(r) == [dir |-> req[r].tempDir, name |-> "artifact", data |-> r]

\* C18: the step that starts, or tries to start, the child of a request is
\* taken only when the request's upload lies saved under the name
\* 'artifact' in the directory the request created, and the ARTIFACT_PATH
\* a started child is given is the path of that very file.
C18_StartAfterSave ==
    [][\A r \in Requests :
         /\ req'[r].starts > req[r].starts =>
               /\ req[r].saved
               /\ req[r].tempDir # NoDir
               /\ OwnDirOnDisk(r)
               /\ SavedArtifact(r) \in files
         /\ (child[r].status = "none" /\ child'[r].status # "none") =>
               /\ req'[r].starts > req[r].starts
               /\ child'[r].status = "running"
               /\ child'[r].env = Join(SavedArtifact(r).dir, SavedArtifact(r).name)
               /\ child'[r].env # req[r].tempDir]_vars

\* a child runs with the path of the saved file, which is on disk
C18_Witness ==
    \E r \in Requests :
        /\ child[r].status = "running"
        /\ req[r].saved
        /\ SavedArtifact(r) \in files
        /\ child[r].env = Join(req[r].tempDir, "artifact")

\* C19 as stated: the step that removes the directory of a request is taken
\* only when the request started no child, or its child has exited and the
\* handler has waited for it; in particular not while the child runs.
C19_NoRemovalUnderChild ==
    [][\A r \in Requests :
         (req[r].pc = "cleanup" /\ req'[r].pc = "done" /\ req'[r].rm = "ok") =>
            \/ child[r].status = "none"
            \/ /\ child[r].status = "exited"
               /\ ~req[r].panicking]_vars

\* what became of request r, read off what it presented and what happened
\* to it on the way
Outcome(r) ==
    LET q == req[r]
        p == ProductOf(appContext.Products, q.product)
    IN  CASE LookupOk(appContext.Products, q.product) /\ ~Verify(p, q.cred)
                                      -> "unauthorized"
          [] ~LookupOk(appContext.Products, q.product) -> "unknown product"
          [] ~q.hasFile               -> "missing file"
          [] q.tempDir = NoDir        -> "directory failure"
          [] ~q.saved                 -> "save failure"
          [] p.Script = ""            -> "success"
          [] q.stdoutPipe = "nil" \/ q.stderrPipe = "nil" -> "panic"
          [] ~q.started               -> "pipeline failure"
          [] child[r].code # 0        -> "pipeline failure"
          [] OTHER                    -> "success"

StatusOf(outcome) ==
    CASE outcome = "unauthorized"      -> 401
      [] outcome = "unknown product"   -> 400
      [] outcome = "missing file"      -> 400
      [] outcome = "directory failure" -> 500
      [] outcome = "save failure"      -> 500
      [] outcome = "pipeline failure"  -> 422
      [] outcome = "panic"             -> 500
      [] outcome = "success"           -> 200

\* C20: a request never has more than one response, a finished request has
\* exactly one, and its status is the one that belongs to the outcome of
\* the request, whatever else happened around it.
C20_ExactlyOneResponse ==
    \A r \in Requests :
        /\ Len(req[r].resp) <= 1
        /\ Done(r) =>
              /\ Len(req[r].resp) = 1
              /\ req[r].resp[1].status = StatusOf(Outcome(r))
        /\ (req[r].pc = "cleanup" /\ ~req[r].panicking) => Len(req[r].resp) = 1

\* two finished requests of different outcomes, each with its one response
C20_Witness ==
    \E r, o \in Requests :
        /\ Done(r) /\ Outcome(r) = "pipeline failure"
        /\ child[r].status = "exited" /\ child[r].code = 1
        /\ req[r].resp = <<RespPipeline>>
        /\ Done(o) /\ Outcome(o) = "missing file"
        /\ req[o].resp = <<RespNoFile>>
====
